---- MODULE Spec2Model ----
(***************************************************************************)
(* Model of the channel/playlist monitoring pipeline of tubextend:         *)
(* ChannelMonitorAgent (agents/channel_monitor.py) running against the     *)
(* record store (utils/database.py) and the video provider                 *)
(* (utils/api_wrappers.py).                                                *)
(*                                                                         *)
(* Every store call and every provider call is one step; a store or        *)
(* provider failure is a nondeterministic outcome of the step.  A run can  *)
(* be cancelled or crash between any two steps.                            *)
(***************************************************************************)
EXTENDS Integers, Sequences, FiniteSets, TLC

\* ------------------------------------------------------------------ bounds
\* Number of store and provider failures in one behaviour.
MaxFaults == 3
\* ChannelMonitorAgent.batch_size (50 in the source), scaled down so that the
\* listings of the model span several batches.
batch_size == 2
\* maxResults of a page request (50 in the source), scaled down so that a
\* listing of the model spans several pages.
maxResults == 2
\* How far the cache's clock runs, in minutes.
MaxClock == 7
\* How many days pass while two invocations of run are followed.
MaxTicks == 1
\* Number of store and provider failures two invocations of run meet together.
MaxRunsFaults == 1
\* Sessions a fetcher creates at most, and contexts a task nests at most.
MaxSessions == 4
MaxNesting == 2
\* Sources one user configures at most.
MaxSources == 21

\* ------------------------------------------------------- program constants
\* ChannelMonitorAgent.max_retries
max_retries == 3
\* ChannelMonitorAgent.rate_limit
rate_limit == 10000
\* timedelta(days=30) of the first-run window; the clock counts days.
thirty_days == 30
\* YouTubeRSSFetcher.fetch_channel_videos: max_videos
max_videos == 15
\* Database._cached_query: ttl = timedelta(minutes=5)
cache_ttl == 5

\* ------------------------------------------------------------------ values
\* None, for an Optional[str]
Null == "null"
\* None, for an Optional[datetime]
NoDate == [wall |-> 0, tz |-> "none"]
\* a naive datetime (tzinfo is None) and a timezone-aware one (UTC)
Naive(t) == [wall |-> t, tz |-> "naive"]
Aware(t) == [wall |-> t, tz |-> "utc"]
\* datetime.replace(tzinfo=timezone.utc) on a naive value, the value itself otherwise
EnsureAware(d) == IF d.tz = "naive" THEN [wall |-> d.wall, tz |-> "utc"] ELSE d

\* The clock at the start, and the checkpoint X of a source that was processed
\* before: 30 days earlier.
FirstNow == 2 * thirty_days
X == FirstNow - thirty_days

Range(s) == {s[i] : i \in DOMAIN s}
Min(a, b) == IF a < b THEN a ELSE b
\* videos[:n] and videos[n:]
Take(s, n) == SubSeq(s, 1, Min(n, Len(s)))
Drop(s, n) == SubSeq(s, n + 1, Len(s))
Ids(vs) == {vs[i].youtube_video_id : i \in DOMAIN vs}

\* ---------------------------------------------------------------- upstream
\* What YouTube holds: the listing of each channel and playlist, newest first.
UserIds == {"u1", "u2", "ghost"}
ChannelIds == {"c1", "c2", "c3", "c4"}
VideoIds == {"v0", "v1", "v2", "v3", "v4"}
SourceIds == {"s1", "s2", "s3"}

\* snippet.publishedAt of a video (v4 carries none)
PublishedAt(v) ==
    CASE v = "v0" -> Naive(X - 2)
      [] v = "v1" -> Naive(X - 1)
      [] v = "v2" -> Naive(X)
      [] v = "v3" -> Naive(X + 1)
      [] OTHER -> NoDate

ChannelListing(c) ==
    CASE c = "c1" -> <<"v1", "v0", "v1">>
      [] c = "c2" -> <<"v2">>
      [] c = "c3" -> <<"v3", "v4">>
      [] OTHER -> <<>>

PlaylistIds == {"pl1"}
PlaylistListing(p) == IF p = "pl1" THEN <<"v3", "v0">> ELSE <<>>
\* snippet.channelId of a playlist item
PlaylistChannel(p) == "c4"

\* VideoMetadata as YouTubeAPI builds it
VideoMetadata(v, c) ==
    [youtube_video_id |-> v, channel_id |-> c, uploaded_at |-> PublishedAt(v)]

\* How a page request to the primary backend can end: a response, an HttpError
\* with status 403 (quota), any other HttpError, or an exception that is no
\* HttpError (socket, timeout, name resolution).
BackendOutcomes == {"ok", "quota", "http_error", "transport_error"}
\* The number of page requests a listing takes when none fails.
NumPages(l) == IF Len(l) = 0 THEN 1 ELSE (Len(l) + maxResults - 1) \div maxResults
\* What a listing call hands back: the videos, or raised.
Returned(vs, sig) == [videos |-> vs, raised |-> FALSE, signal |-> sig]
Raised(sig) == [videos |-> <<>>, raised |-> TRUE, signal |-> sig]
NoCall == [videos |-> <<>>, raised |-> FALSE, signal |-> "none"]

\* YouTubeAPI.fetch_channel_videos when page request k ends with outcome sig
\* and the requests before it are answered.  A 403 breaks out of the loop and
\* the pages read so far are returned; another HttpError is re-raised to the
\* outer handler, which returns []; any other exception propagates.
search_list(c, k, sig) ==
    LET all == [i \in DOMAIN ChannelListing(c) |-> VideoMetadata(ChannelListing(c)[i], c)] IN
    CASE sig = "ok" -> Returned(all, "ok")
      [] sig = "quota" -> Returned(Take(all, (k - 1) * maxResults), "quota")
      [] sig = "http_error" -> Returned(<<>>, "http_error")
      [] OTHER -> Raised(sig)

\* The outcomes of fetch_channel_videos over every page request that can fail.
fetch_channel_videos(c) ==
    {search_list(c, k, sig) : k \in 1..NumPages(ChannelListing(c)), sig \in BackendOutcomes}

\* YouTubeAPI.fetch_playlist_videos when page request k ends with outcome sig:
\* every HttpError, a 403 included, returns []; any other exception propagates.
playlistItems_list(p, k, sig) ==
    LET all == [i \in DOMAIN PlaylistListing(p) |->
                    VideoMetadata(PlaylistListing(p)[i], PlaylistChannel(p))] IN
    CASE sig = "ok" -> Returned(all, "ok")
      [] sig \in {"quota", "http_error"} -> Returned(<<>>, sig)
      [] OTHER -> Raised(sig)

fetch_playlist_videos(p) ==
    {playlistItems_list(p, k, sig) : k \in 1..NumPages(PlaylistListing(p)), sig \in BackendOutcomes}

\* YouTubeRSSFetcher.fetch_channel_videos: the first max_videos entries of the
\* channel's feed, or [] when the feed could not be read.  parse_feed_entry
\* reads `published` with its UTC offset.
rss_fetch_channel_videos(c, feed_ok) ==
    IF ~feed_ok THEN <<>>
    ELSE [i \in 1..Min(max_videos, Len(ChannelListing(c))) |->
            [youtube_video_id |-> ChannelListing(c)[i], channel_id |-> c,
             uploaded_at |-> EnsureAware(PublishedAt(ChannelListing(c)[i]))]]

\* ------------------------------------------------------------------- store
\* The rows of table sources that never change in a run.
SourceType(s) == IF s = "s2" THEN "playlist" ELSE "channel_collection"
SourceOwner(s) == IF s = "s3" THEN "u2" ELSE "u1"
SourcePreferences(s) ==
    IF s = "s1" THEN [tts_voice |-> "test_voice", summarization_style |-> "test_style"]
    ELSE [tts_voice |-> Null, summarization_style |-> Null]

NoJob == [id |-> 0, user_id |-> Null, source_id |-> Null, status |-> Null,
          video_ids |-> <<>>, options_source_id |-> Null,
          preferences |-> SourcePreferences("s3"), created_at |-> NoDate]
NoVideo == [youtube_video_id |-> Null, channel_id |-> Null, uploaded_at |-> NoDate]

VARIABLES
    \* the record store
    users,              \* table users: the ids that have a row
    sourceOrder,        \* table sources: the ids in the order a select returns them
    playlistId,         \* sources.youtube_playlist_id
    lastProcessed,      \* sources.last_processed_at
    sourceChannels,     \* table source_channels: source id -> linked channel ids
    channels,           \* table channels: the ids that have a row
    videos,             \* table videos: video id -> row (NoVideo: no row)
    sourceVideos,       \* table source_videos: its rows <<source id, video id>>
    generationJobs,     \* table generation_jobs, in insertion order
    userCache,          \* Database._cache: the user ids with a cached row
    now,                \* the wall clock
    \* one invocation of ChannelMonitorAgent.run
    pc,                 \* where the run stands
    runs,               \* invocations started so far
    user_id,            \* run's argument
    sources,            \* run: the SourceInfo list read at the start
    idx,                \* run: position of `source` in sources
    jobs,               \* run: the list it returns
    progress,           \* self._progress
    source_channels,    \* _process_channel_collection: its channel list
    ci,                 \* _process_channel_collection: loop index
    new_videos,         \* all_new_videos / videos handed to _process_new_videos
    videos_to_process,  \* _process_new_videos: the videos the policy included
    batch,              \* _process_videos_batch: [videos, processed_videos, processed_ids, retry_count]
    pv,                 \* _process_videos: [videos, k, processed_videos, processed_ids]
    processed_videos,   \* _process_new_videos: result of _process_videos_batch
    job,                \* _process_new_videos: the GenerationJob it built
    \* history of the current run
    provider_calls,     \* source ids on behalf of which the provider was called
    store_writes,       \* source ids on behalf of which the store was written
    queued,             \* source ids whose job insert returned a matching job
    advanced,           \* source ids whose last_processed_at was written
    failed,             \* the failures met: <<source id or "run", kind>>
    faults,             \* how many failures were met
    fetched_ok,         \* source id -> videos the provider returned for it
    fetch_status,       \* channel or playlist id -> how its listing call ended
    backend,            \* channel or playlist id -> what its last listing call met and returned
    \* a second invocation of run on the same agent
    other,              \* the locals and history of the invocation that is not running
    concurrent,         \* whether an invocation was suspended while the other ran
    \* Database._cache, an instance of Cache
    _cache,             \* Cache._cache: key -> value (Null: no entry)
    _ttls,              \* Cache._ttls: key -> expiry time
    clock,              \* datetime.now() as the cache reads it, in minutes
    written,            \* key -> the last Cache.set on it: [value, at]
    cache_op,           \* the last cache operation and what it returned
    \* the rate limiter of ChannelMonitorAgent
    _request_count,     \* self._request_count
    _last_request_time, \* self._last_request_time, in days
    \* a YouTubeRSSFetcher and the tasks that use it
    session,            \* self.session (NoSession: None), sessions are numbered
    _session_owner,     \* self._session_owner
    _context_depth,     \* self._context_depth
    closed,             \* the sessions whose .closed is true
    created,            \* how many sessions exist
    held,               \* task -> the sessions its active _get_session contexts yielded
    \* a user with many sources, and run's walk over them
    owned,              \* table sources: the rows of the user, numbered, in select order
    walk,               \* where the walk stands: "idle", "loop" or "done"
    page,               \* run: `sources`, what get_sources_by_user returned
    visited             \* the sources the loop of run has taken up

storeVars == <<users, sourceOrder, playlistId, lastProcessed, sourceChannels,
               channels, videos, sourceVideos, generationJobs>>
sourceVars == <<source_channels, ci, new_videos>>
videoVars == <<videos_to_process, batch, pv, processed_videos, job>>
failure == <<failed, faults>>
historyVars == <<provider_calls, store_writes, queued, advanced, failure, fetched_ok,
                 fetch_status, backend>>
cacheVars == <<_cache, _ttls, clock, written, cache_op>>
rateVars == <<_request_count, _last_request_time>>
sessionVars == <<session, _session_owner, _context_depth, closed, created, held>>
walkVars == <<owned, walk, page, visited>>
agentVarsNoWalk == <<storeVars, userCache, now, pc, runs, user_id, sources, idx, jobs,
                     progress, sourceVars, videoVars, historyVars, other, concurrent,
                     cacheVars, rateVars, sessionVars>>
auxVars == <<other, concurrent, cacheVars, rateVars, sessionVars, walkVars>>
agentVarsNoSession == <<storeVars, userCache, now, pc, runs, user_id, sources, idx, jobs,
                        progress, sourceVars, videoVars, historyVars, other, concurrent,
                        rateVars, walkVars>>
agentVars == <<storeVars, userCache, now, pc, runs, user_id, sources, idx, jobs, progress,
               sourceVars, videoVars, historyVars, other, concurrent, rateVars, sessionVars,
               walkVars>>
vars == <<storeVars, userCache, now, pc, runs, user_id, sources, idx, jobs, progress,
          sourceVars, videoVars, historyVars, auxVars>>

NoBatch == [videos |-> <<>>, processed_videos |-> <<>>, processed_ids |-> {}, retry_count |-> 0]
NoPv == [videos |-> <<>>, k |-> 0, processed_videos |-> <<>>, processed_ids |-> {}]

\* The locals of a run that is not inside any source.
ResetLocals ==
    /\ source_channels' = <<>>
    /\ ci' = 0
    /\ new_videos' = <<>>
    /\ videos_to_process' = <<>>
    /\ batch' = NoBatch
    /\ pv' = NoPv
    /\ processed_videos' = <<>>
    /\ job' = NoJob

\* An invocation of run that has not started.
IdleRun ==
    [pc |-> "idle", user_id |-> Null, sources |-> <<>>, idx |-> 0, jobs |-> <<>>,
     source_channels |-> <<>>, ci |-> 0, new_videos |-> <<>>, videos_to_process |-> <<>>,
     batch |-> NoBatch, pv |-> NoPv, processed_videos |-> <<>>, job |-> NoJob,
     provider_calls |-> {}, store_writes |-> {}, queued |-> {}, advanced |-> {},
     fetched_ok |-> [s \in SourceIds |-> <<>>],
     fetch_status |-> [c \in ChannelIds \cup PlaylistIds |-> "none"],
     backend |-> [c \in ChannelIds \cup PlaylistIds |-> NoCall]]

\* Database._cache_key('user', user_id, 'all')
_cache_key(prefix, uid) == <<prefix, uid, "all">>
CacheKeys == {_cache_key("user", u) : u \in UserIds}
\* UserInfo(**row)
UserInfo(u) == [id |-> u]
\* None, for a cached value, and the error get_user raises for a missing row
NoValue == [id |-> Null]
NotFound == [id |-> "RecordNotFoundError"]
NoWrite == [value |-> NoValue, at |-> 0]
NoOp == [op |-> "none", key |-> _cache_key("none", Null), result |-> NoValue, fresh |-> FALSE, queried |-> FALSE]

\* Cache.__init__
InitCache ==
    /\ _cache = [k \in CacheKeys |-> NoValue]
    /\ _ttls = [k \in CacheKeys |-> 0]
    /\ clock = 0
    /\ written = [k \in CacheKeys |-> NoWrite]
    /\ cache_op = NoOp

\* ChannelMonitorAgent.__init__, lines 29-30.
InitRate ==
    /\ _request_count = 0
    /\ _last_request_time = FirstNow

\* The tasks that share one fetcher.
Tasks == {"t1", "t2", "t3"}
\* self.session is None.
NoSession == 0

\* YouTubeRSSFetcher.__init__, lines 20-24, constructed without a session.
InitSession ==
    /\ session = NoSession
    /\ created = 0
    /\ _session_owner = (session = NoSession)
    /\ _context_depth = 0
    /\ closed = {}
    /\ held = [t \in Tasks |-> <<>>]

\* A user without sources yet; run has not been called.
InitWalk ==
    /\ owned = <<>>
    /\ walk = "idle"
    /\ page = <<>>
    /\ visited = {}

Init ==
    /\ users = {"u1", "u2"}
    /\ sourceOrder \in {<<"s1", "s2", "s3">>, <<"s2", "s1", "s3">>}
    /\ playlistId \in {[s \in SourceIds |-> IF s = "s2" THEN p ELSE Null] : p \in {Null, "pl1"}}
    /\ lastProcessed \in {[s \in SourceIds |-> IF s = "s1" THEN d ELSE NoDate] :
                            d \in {NoDate, Naive(X), Aware(X)}}
    /\ sourceChannels \in {[s \in SourceIds |-> IF s = "s1" THEN l ELSE <<>>] :
                            l \in {<<>>, <<"c1", "c2", "c3">>}}
    /\ channels = {"c1", "c2", "c3"}
    /\ videos = [v \in VideoIds |-> NoVideo]
    /\ sourceVideos = <<>>
    /\ generationJobs = <<>>
    /\ userCache = {}
    /\ now = FirstNow
    /\ pc = "idle"
    /\ runs = 0
    /\ user_id = Null
    /\ sources = <<>>
    /\ idx = 0
    /\ jobs = <<>>
    /\ progress = [s \in SourceIds |-> [total |-> 0, processed |-> 0]]
    /\ source_channels = <<>>
    /\ ci = 0
    /\ new_videos = <<>>
    /\ videos_to_process = <<>>
    /\ batch = NoBatch
    /\ pv = NoPv
    /\ processed_videos = <<>>
    /\ job = NoJob
    /\ provider_calls = {}
    /\ store_writes = {}
    /\ queued = {}
    /\ advanced = {}
    /\ failed = {}
    /\ faults = 0
    /\ fetched_ok = [s \in SourceIds |-> <<>>]
    /\ fetch_status = [c \in ChannelIds \cup PlaylistIds |-> "none"]
    /\ backend = [c \in ChannelIds \cup PlaylistIds |-> NoCall]
    /\ other = IdleRun
    /\ concurrent = FALSE
    /\ InitCache
    /\ InitRate
    /\ InitSession
    /\ InitWalk

\* ------------------------------------------------------------ store reads
\* A get_user whose query function wraps the not-found error like any other.
get_user_miss_wrapped(found) == IF found THEN "user" ELSE "DatabaseError"

\* Database.get_user -> "user" | "RecordNotFoundError" | "DatabaseError".
\* A cached row is returned without a query; store_ok is whether the query
\* could be executed.
get_user_miss(found) == IF found THEN "user" ELSE "RecordNotFoundError"
get_user(uid, store_ok) ==
    IF uid \in userCache THEN "user"
    ELSE IF ~store_ok THEN "DatabaseError"
    ELSE get_user_miss(uid \in users)

\* SourceInfo(**row)
SourceInfo(s) ==
    [id |-> s, user_id |-> SourceOwner(s), source_type |-> SourceType(s),
     youtube_playlist_id |-> playlistId[s], preferences |-> SourcePreferences(s),
     last_processed_at |-> lastProcessed[s]]

\* Database.get_sources_by_user: the first page of the user's sources.
page_size == 20
\* .range(offset, offset + page_size - 1) with page = 1: the first page_size rows.
first_page(rows) ==
    SubSeq(rows, 1, IF Len(rows) < page_size THEN Len(rows) ELSE page_size)
get_sources_by_user(uid) ==
    LET mine == SelectSeq(sourceOrder, LAMBDA s : SourceOwner(s) = uid)
        rows == first_page(mine)
    IN  [i \in DOMAIN rows |-> SourceInfo(rows[i])]

\* A get_source_channels whose first query is not filtered by source id.
get_source_channels_unfiltered(s) ==
    SelectSeq(<<"c1", "c2", "c3", "c4">>,
              LAMBDA c : c \in channels /\ \E t \in SourceIds : c \in Range(sourceChannels[t]))

\* Database.get_source_channels: the linked channels that have a row in channels.
get_source_channels(s) == SelectSeq(sourceChannels[s], LAMBDA c : c \in channels)

\* ----------------------------------------------------------------- policy
\* A policy that includes a video uploaded exactly at the checkpoint.
_should_process_video_tie(video, src) ==
    IF video.uploaded_at = NoDate THEN FALSE
    ELSE IF src.last_processed_at = NoDate THEN TRUE
    ELSE EnsureAware(video.uploaded_at).wall >= EnsureAware(src.last_processed_at).wall

\* The policy with the 30-day first-run window of lines 365-368.
_should_process_video_window(video, src) ==
    IF video.uploaded_at = NoDate THEN FALSE
    ELSE IF src.last_processed_at = NoDate
    THEN EnsureAware(video.uploaded_at).wall >= now - thirty_days
    ELSE EnsureAware(video.uploaded_at).wall > EnsureAware(src.last_processed_at).wall

\* A policy that lets a video without upload date into a first run.
_should_process_video_undated(video, src) ==
    IF src.last_processed_at = NoDate THEN TRUE
    ELSE IF video.uploaded_at = NoDate THEN FALSE
    ELSE EnsureAware(video.uploaded_at).wall > EnsureAware(src.last_processed_at).wall

\* A policy that includes every video.
_should_process_video_any(video, src) == TRUE

\* ChannelMonitorAgent._should_process_video
_should_process_video(video, src) ==
    IF video.uploaded_at = NoDate THEN FALSE
    ELSE IF src.last_processed_at = NoDate THEN TRUE
    ELSE EnsureAware(video.uploaded_at).wall > EnsureAware(src.last_processed_at).wall

\* ------------------------------------------------------------------ the run
Terminal == {"done", "raised", "crashed"}
source == sources[idx]
Fail(who, kind) ==
    /\ faults < MaxFaults
    /\ faults' = faults + 1
    /\ failed' = failed \cup {<<who, kind>>}

\* run(user_id) is invoked.
StartRun(u) ==
    /\ pc = "idle"
    /\ runs' = runs + 1
    /\ user_id' = u
    /\ pc' = "get_user"
    /\ sources' = <<>>
    /\ idx' = 0
    /\ jobs' = <<>>
    /\ ResetLocals
    /\ provider_calls' = {}
    /\ store_writes' = {}
    /\ queued' = {}
    /\ advanced' = {}
    /\ fetched_ok' = [s \in SourceIds |-> <<>>]
    /\ fetch_status' = [c \in ChannelIds \cup PlaylistIds |-> "none"]
    /\ backend' = [c \in ChannelIds \cup PlaylistIds |-> NoCall]
    /\ UNCHANGED <<auxVars, storeVars, userCache, now, progress, failure>>

\* run, lines 72-79: resolve the user.
RunGetUser ==
    /\ pc = "get_user"
    /\ \E store_ok \in BOOLEAN :
        LET r == get_user(user_id, store_ok) IN
        /\ pc' = CASE r = "user" -> "get_sources"
                   [] r = "RecordNotFoundError" -> "done"
                   [] OTHER -> "raised"
        /\ userCache' = IF r = "user" THEN userCache \cup {user_id} ELSE userCache
        /\ IF ~store_ok /\ user_id \notin userCache
           THEN Fail("run", "store")
           ELSE UNCHANGED failure
    /\ UNCHANGED <<auxVars, storeVars, now, runs, user_id, sources, idx, jobs, progress,
                   sourceVars, videoVars, provider_calls, store_writes, queued,
                   advanced, fetched_ok, fetch_status, backend>>

\* run, lines 81-86: read the user's sources.
RunGetSources ==
    /\ pc = "get_sources"
    /\ \E store_ok \in BOOLEAN :
        IF ~store_ok
        THEN /\ pc' = "raised"
             /\ Fail("run", "store")
             /\ UNCHANGED <<sources, idx>>
        ELSE /\ sources' = get_sources_by_user(user_id)
             /\ idx' = 1
             /\ pc' = IF sources' = <<>> THEN "done" ELSE "source"
             /\ UNCHANGED failure
    /\ UNCHANGED <<auxVars, storeVars, userCache, now, runs, user_id, jobs, progress,
                   sourceVars, videoVars, provider_calls, store_writes, queued,
                   advanced, fetched_ok, fetch_status, backend>>

\* The for loop of run moves to the next source; _process_playlist records its
\* progress when it did not raise (lines 146-148).
FinishSource(playlist_done) ==
    /\ idx' = idx + 1
    /\ pc' = "source"
    /\ progress' = IF playlist_done
                   THEN [progress EXCEPT ![source.id].processed = 1]
                   ELSE progress
    /\ ResetLocals

\* run, line 110-111: every source was visited.
RunReturn ==
    /\ pc = "source"
    /\ idx > Len(sources)
    /\ pc' = "done"
    /\ UNCHANGED <<auxVars, storeVars, userCache, now, runs, user_id, sources, idx, jobs,
                   progress, sourceVars, videoVars, historyVars>>

\* run, lines 88-108: one iteration of the loop up to the call that processes
\* the source.
RunSource ==
    /\ pc = "source"
    /\ idx <= Len(sources)
    /\ IF source.source_type = "channel_collection"
       THEN \E store_ok \in BOOLEAN :
            IF ~store_ok
            THEN /\ pc' = "raised"
                 /\ Fail("run", "store")
                 /\ UNCHANGED <<idx, progress>>
            ELSE IF get_source_channels(source.id) = <<>>
            THEN /\ idx' = idx + 1
                 /\ UNCHANGED <<pc, progress, failure>>
            ELSE /\ progress' = [progress EXCEPT ![source.id] =
                        [total |-> Len(get_source_channels(source.id)), processed |-> 0]]
                 /\ pc' = "collection"
                 /\ UNCHANGED <<idx, failure>>
       ELSE IF source.youtube_playlist_id = Null
            THEN /\ idx' = idx + 1
                 /\ UNCHANGED <<pc, progress, failure>>
            ELSE /\ progress' = [progress EXCEPT ![source.id] = [total |-> 1, processed |-> 0]]
                 /\ pc' = "playlist"
                 /\ UNCHANGED <<idx, failure>>
    /\ UNCHANGED <<auxVars, storeVars, userCache, now, runs, user_id, sources, jobs,
                   sourceVars, videoVars, provider_calls, store_writes, queued,
                   advanced, fetched_ok, fetch_status, backend>>

\* ------------------------------------------------------ channel collection
\* _process_channel_collection, lines 115-120: it reads the channel list again.
CollectionEnter ==
    /\ pc = "collection"
    /\ \E store_ok \in BOOLEAN :
        IF ~store_ok
        THEN /\ pc' = "raised"
             /\ Fail("run", "store")
             /\ UNCHANGED <<idx, progress, sourceVars, videoVars>>
        ELSE IF get_source_channels(source.id) = <<>>
        THEN /\ FinishSource(FALSE)
             /\ UNCHANGED failure
        ELSE /\ source_channels' = get_source_channels(source.id)
             /\ ci' = 1
             /\ new_videos' = <<>>
             /\ pc' = "fetch_channel"
             /\ UNCHANGED <<idx, progress, videoVars, failure>>
    /\ UNCHANGED <<auxVars, storeVars, userCache, now, runs, user_id, sources, jobs,
                   provider_calls, store_writes, queued, advanced, fetched_ok, fetch_status, backend>>

\* A loop that gives the source up when one channel's fetch raises.
after_fetch_error_abort(i, n) == n + 1

\* The channel index the loop of _process_channel_collection goes on with after
\* the fetch of channel i (of n) raised: `continue`, line 131.
after_fetch_error(i, n) == i + 1

\* _process_channel_collection, lines 121-131: one channel of the loop.  The
\* provider returns a list, or raises (anything but an HttpError).
FetchChannel ==
    /\ pc = "fetch_channel"
    /\ ci <= Len(source_channels)
    /\ provider_calls' = provider_calls \cup {source.id}
    /\ \E r \in fetch_channel_videos(source_channels[ci]) :
        /\ backend' = [backend EXCEPT ![source_channels[ci]] = r]
        /\ IF r.signal = "ok" THEN UNCHANGED failure ELSE Fail(source.id, "fetch")
        /\ IF ~r.raised
           THEN /\ new_videos' = new_videos \o r.videos
                /\ fetched_ok' = [fetched_ok EXCEPT ![source.id] = @ \o r.videos]
                /\ fetch_status' = [fetch_status EXCEPT ![source_channels[ci]] =
                        CASE r.signal = "ok" -> "listed"
                          [] r.videos = <<>> -> "empty"
                          [] OTHER -> "partial"]
                /\ progress' = [progress EXCEPT ![source.id].processed = ci]
                /\ ci' = ci + 1
           ELSE /\ ci' = after_fetch_error(ci, Len(source_channels))
                /\ fetch_status' = [fetch_status EXCEPT ![source_channels[ci]] = "raised"]
                /\ UNCHANGED <<new_videos, fetched_ok, progress>>
    /\ UNCHANGED <<auxVars, storeVars, userCache, now, pc, runs, user_id, sources, idx, jobs,
                   source_channels, videoVars, store_writes, queued, advanced>>

\* _process_channel_collection, lines 133-134: after the last channel.
ChannelsDone ==
    /\ pc = "fetch_channel"
    /\ ci > Len(source_channels)
    /\ IF new_videos # <<>>
       THEN /\ pc' = "filter"
            /\ UNCHANGED <<idx, progress, sourceVars, videoVars>>
       ELSE FinishSource(FALSE)
    /\ UNCHANGED <<auxVars, storeVars, userCache, now, runs, user_id, sources, jobs, historyVars>>

\* ---------------------------------------------------------------- playlist
\* _process_playlist, lines 142-150.
FetchPlaylist ==
    /\ pc = "playlist"
    /\ provider_calls' = provider_calls \cup {source.id}
    /\ \E r \in fetch_playlist_videos(source.youtube_playlist_id) :
        /\ backend' = [backend EXCEPT ![source.youtube_playlist_id] = r]
        /\ IF r.signal = "ok" THEN UNCHANGED failure ELSE Fail(source.id, "fetch")
        /\ fetched_ok' = [fetched_ok EXCEPT ![source.id] = @ \o r.videos]
        /\ fetch_status' = [fetch_status EXCEPT ![source.youtube_playlist_id] =
                CASE r.raised -> "raised"
                  [] r.videos = <<>> -> "empty"
                  [] OTHER -> "listed"]
        /\ IF r.videos # <<>>
           THEN /\ new_videos' = r.videos
                /\ pc' = "filter"
                /\ UNCHANGED <<idx, progress, source_channels, ci, videoVars>>
           ELSE FinishSource(~r.raised)
    /\ UNCHANGED <<auxVars, storeVars, userCache, now, runs, user_id, sources, jobs,
                   store_writes, queued, advanced>>

\* ---------------------------------------------------- _process_new_videos
\* _process_new_videos, lines 282-290, and the entry of _process_videos_batch,
\* lines 240-248.
FilterVideos ==
    /\ pc = "filter"
    /\ LET included == SelectSeq(new_videos, LAMBDA v : _should_process_video(v, source)) IN
       IF included = <<>>
       THEN FinishSource(source.source_type = "playlist")
       ELSE /\ videos_to_process' = included
            /\ batch' = [videos |-> SelectSeq(included, LAMBDA v : v.channel_id # Null),
                         processed_videos |-> <<>>, processed_ids |-> {}, retry_count |-> 0]
            /\ pc' = "batch"
            /\ UNCHANGED <<idx, progress, sourceVars, pv, processed_videos, job>>
    /\ UNCHANGED <<auxVars, storeVars, userCache, now, runs, user_id, sources, jobs, historyVars>>

\* A batch that keeps the videos an earlier batch processed.
current_batch_unfiltered(vs, processed_ids) == Take(vs, batch_size)

\* _process_videos_batch, lines 252-254: the next batch, without the videos
\* an earlier batch processed.
current_batch_of(vs, processed_ids) ==
    SelectSeq(Take(vs, batch_size), LAMBDA v : v.youtube_video_id \notin processed_ids)

\* A loop that goes on while videos are left, however often it has failed.
batch_continues_unbounded(vs, retry_count) == vs # <<>>

\* _process_videos_batch, line 250: `while videos and retry_count < self.max_retries`.
batch_continues(vs, retry_count) == vs # <<>> /\ retry_count < max_retries

\* _process_videos_batch, lines 250-260 and 275: the head of the while loop.
BatchLoop ==
    /\ pc = "batch"
    /\ IF batch_continues(batch.videos, batch.retry_count)
       THEN LET current_batch == current_batch_of(batch.videos, batch.processed_ids) IN
            IF current_batch = <<>>
            THEN /\ batch' = [batch EXCEPT !.videos = Drop(batch.videos, batch_size)]
                 /\ UNCHANGED <<pc, pv, processed_videos>>
            ELSE /\ pv' = [videos |-> current_batch, k |-> 0,
                           processed_videos |-> <<>>, processed_ids |-> {}]
                 /\ pc' = "process_videos"
                 /\ UNCHANGED <<batch, processed_videos>>
       ELSE /\ processed_videos' = batch.processed_videos
            /\ pc' = "link"
            /\ batch' = NoBatch
            /\ UNCHANGED pv
    /\ UNCHANGED <<auxVars, storeVars, userCache, now, runs, user_id, sources, idx, jobs,
                   progress, sourceVars, videos_to_process, job, historyVars>>

\* _process_videos_batch, lines 266-273: a raised batch counts one retry.
BatchRaised ==
    /\ batch' = [batch EXCEPT !.retry_count = @ + 1]
    /\ pv' = NoPv
    /\ pc' = "batch"

\* _process_videos, lines 156-179: the channels of the batch.  A channel that
\* has no row is asked of the provider and the ones it resolves are inserted.
\* get_channel, fetch_channel_info (other than an HttpError) and
\* bulk_insert_channels can raise.
ProcessVideosChannels ==
    /\ pc = "process_videos"
    /\ pv.k = 0
    /\ LET missing == {pv.videos[i].channel_id : i \in DOMAIN pv.videos} \ channels IN
       \/ \E resolved \in SUBSET missing :
            /\ channels' = channels \cup resolved
            /\ provider_calls' = IF missing # {} THEN provider_calls \cup {source.id}
                                 ELSE provider_calls
            /\ store_writes' = IF missing # {} THEN store_writes \cup {source.id}
                               ELSE store_writes
            /\ IF resolved = missing THEN UNCHANGED failure
               ELSE Fail(source.id, "channel")
            /\ pv' = [pv EXCEPT !.k = 1]
            /\ UNCHANGED <<pc, batch>>
       \/ /\ BatchRaised
          /\ Fail(source.id, "batch")
          /\ UNCHANGED <<channels, provider_calls, store_writes>>
    /\ UNCHANGED <<auxVars, users, sourceOrder, playlistId, lastProcessed, sourceChannels,
                   videos, sourceVideos, generationJobs, userCache, now, runs, user_id,
                   sources, idx, jobs, progress, sourceVars, videos_to_process,
                   processed_videos, job, queued, advanced, fetched_ok, fetch_status, backend>>

\* A catalog step that inserts the video whether or not it is stored.
needs_insert_always(stored_video) == TRUE

\* _process_videos, line 188: `if not stored_video`.
needs_insert(stored_video) == stored_video = NoVideo

\* _process_videos, lines 185-199: one video of the batch.  get_video can
\* raise; insert_video returns None when the store refuses the row.
ProcessVideosStep ==
    /\ pc = "process_videos"
    /\ pv.k \in 1..Len(pv.videos)
    /\ LET video == pv.videos[pv.k]
           stored_video == videos[video.youtube_video_id] IN
       IF video.youtube_video_id \in pv.processed_ids
       THEN /\ pv' = [pv EXCEPT !.k = @ + 1]
            /\ UNCHANGED <<pc, batch, videos, store_writes, failure>>
       ELSE \/ /\ ~needs_insert(stored_video)
               /\ pv' = [pv EXCEPT !.k = @ + 1,
                                   !.processed_videos = Append(@, stored_video),
                                   !.processed_ids = @ \cup {video.youtube_video_id}]
               /\ UNCHANGED <<pc, batch, videos, store_writes, failure>>
            \/ /\ needs_insert(stored_video)
               /\ videos' = [videos EXCEPT ![video.youtube_video_id] = video]
               /\ store_writes' = store_writes \cup {source.id}
               /\ pv' = [pv EXCEPT !.k = @ + 1,
                                   !.processed_videos = Append(@, video),
                                   !.processed_ids = @ \cup {video.youtube_video_id}]
               /\ UNCHANGED <<pc, batch, failure>>
            \/ /\ needs_insert(stored_video)
               /\ pv' = [pv EXCEPT !.k = @ + 1]
               /\ Fail(source.id, "batch")
               /\ UNCHANGED <<pc, batch, videos, store_writes>>
            \/ /\ BatchRaised
               /\ Fail(source.id, "batch")
               /\ UNCHANGED <<videos, store_writes>>
    /\ UNCHANGED <<auxVars, users, sourceOrder, playlistId, lastProcessed, sourceChannels,
                   channels, sourceVideos, generationJobs, userCache, now, runs,
                   user_id, sources, idx, jobs, progress, sourceVars,
                   videos_to_process, processed_videos, job, provider_calls, queued,
                   advanced, fetched_ok, fetch_status, backend>>

\* _process_videos returns, line 200, and _process_videos_batch takes the
\* result in, lines 260-265.
ProcessVideosReturn ==
    /\ pc = "process_videos"
    /\ pv.k > Len(pv.videos)
    /\ batch' = [videos |-> Drop(batch.videos, batch_size),
                 processed_videos |-> batch.processed_videos \o pv.processed_videos,
                 processed_ids |-> batch.processed_ids \cup Ids(pv.processed_videos),
                 retry_count |-> 0]
    /\ pv' = NoPv
    /\ pc' = "batch"
    /\ UNCHANGED <<auxVars, storeVars, userCache, now, runs, user_id, sources, idx, jobs,
                   progress, sourceVars, videos_to_process, processed_videos, job,
                   historyVars>>

\* GenerationJob(...) of _process_new_videos, lines 309-321.
GenerationJob(uid, src, processed) ==
    [id |-> Len(generationJobs) + 1,
     user_id |-> uid,
     source_id |-> src.id,
     status |-> "QUEUED",
     video_ids |-> [i \in DOMAIN processed |-> processed[i].youtube_video_id],
     options_source_id |-> src.id,
     preferences |-> src.preferences,
     created_at |-> Aware(now)]

\* The key of the source_videos table, on which an upsert without on_conflict
\* resolves: the pair (source id, video id) of the link.
source_videos_key(row) == <<row[1], row[2]>>

\* An insert that adds every row, whether or not its key is in the table.
bulk_insert_source_videos_plain(table, source_videos) == table \o source_videos

\* Database.bulk_insert_source_videos: an upsert of the rows: a row whose key
\* is in the table replaces that row, any other row is added.
RECURSIVE bulk_insert_source_videos(_, _)
bulk_insert_source_videos(table, source_videos) ==
    IF source_videos = <<>> THEN table
    ELSE bulk_insert_source_videos(
            IF \E i \in DOMAIN table :
                  source_videos_key(table[i]) = source_videos_key(Head(source_videos))
            THEN [i \in DOMAIN table |->
                    IF source_videos_key(table[i]) = source_videos_key(Head(source_videos))
                    THEN Head(source_videos) ELSE table[i]]
            ELSE Append(table, Head(source_videos)),
            Tail(source_videos))

\* _process_new_videos, lines 296-321: link the processed videos to the source
\* (bulk_insert_source_videos returns [] when the upsert fails) and build the job.
LinkVideos ==
    /\ pc = "link"
    /\ \/ /\ sourceVideos' = bulk_insert_source_videos(sourceVideos,
                    [i \in DOMAIN processed_videos |->
                        <<source.id, processed_videos[i].youtube_video_id>>])
          /\ store_writes' = store_writes \cup {source.id}
          /\ UNCHANGED failure
       \/ /\ Fail(source.id, "link")
          /\ UNCHANGED <<sourceVideos, store_writes>>
    /\ job' = GenerationJob(user_id, source, processed_videos)
    /\ pc' = "insert_job"
    /\ UNCHANGED <<auxVars, users, sourceOrder, playlistId, lastProcessed, sourceChannels,
                   channels, videos, generationJobs, userCache, now, runs, user_id,
                   sources, idx, jobs, progress, sourceVars, videos_to_process, batch,
                   pv, processed_videos, provider_calls, queued, advanced, fetched_ok, fetch_status, backend>>

\* A check that does not look at what insert_generation_job returned.
job_accepted_unchecked(inserted_job, src) == TRUE

\* A check that compares the job's source id with the wrong field.
job_accepted_wrong_field(inserted_job, src) ==
    /\ inserted_job # NoJob
    /\ inserted_job.source_id = src.user_id

\* _process_new_videos, lines 325-334: the inserted job is kept when there is
\* one and it names the source.
job_accepted(inserted_job, src) ==
    /\ inserted_job # NoJob
    /\ inserted_job.source_id = src.id

\* _process_new_videos, lines 323-336: insert_generation_job returns the row
\* the store persisted, or None when the insert fails.  The store may persist
\* a row that names another source.
InsertJob ==
    /\ pc = "insert_job"
    /\ \E inserted_job \in {job, [job EXCEPT !.source_id = Null], NoJob} :
        /\ generationJobs' = IF inserted_job # NoJob
                             THEN Append(generationJobs, inserted_job)
                             ELSE generationJobs
        /\ store_writes' = IF inserted_job # NoJob
                           THEN store_writes \cup {source.id} ELSE store_writes
        /\ IF inserted_job = job THEN UNCHANGED failure ELSE Fail(source.id, "job")
        /\ IF job_accepted(inserted_job, source)
           THEN /\ jobs' = Append(jobs, inserted_job)
                /\ queued' = IF inserted_job # NoJob /\ inserted_job.source_id = source.id
                             THEN queued \cup {source.id} ELSE queued
                /\ pc' = "update_source"
                /\ UNCHANGED <<idx, progress, sourceVars, videoVars>>
           ELSE /\ FinishSource(source.source_type = "playlist")
                /\ UNCHANGED <<jobs, queued>>
    /\ UNCHANGED <<auxVars, users, sourceOrder, playlistId, lastProcessed, sourceChannels,
                   channels, videos, sourceVideos, userCache, now, runs, user_id,
                   sources, provider_calls, advanced, fetched_ok, fetch_status, backend>>

\* _process_new_videos, lines 338-344: update_source writes the checkpoint, or
\* returns None when the update fails.
UpdateSource ==
    /\ pc = "update_source"
    /\ \/ /\ lastProcessed' = [lastProcessed EXCEPT ![source.id] = Aware(now)]
          /\ store_writes' = store_writes \cup {source.id}
          /\ advanced' = advanced \cup {source.id}
          /\ UNCHANGED failure
       \/ /\ Fail(source.id, "checkpoint")
          /\ UNCHANGED <<lastProcessed, store_writes, advanced>>
    /\ FinishSource(source.source_type = "playlist")
    /\ UNCHANGED <<auxVars, users, sourceOrder, playlistId, sourceChannels, channels, videos,
                   sourceVideos, generationJobs, userCache, now, runs, user_id,
                   sources, jobs, provider_calls, queued, fetched_ok, fetch_status, backend>>

\* ------------------------------------------------------------- environment
\* The run is cancelled, or the process dies, between two steps: its locals
\* are gone, the store keeps what was written.
Crash ==
    /\ pc \notin Terminal \cup {"idle"}
    /\ pc' = "crashed"
    /\ sources' = <<>>
    /\ idx' = 0
    /\ jobs' = <<>>
    /\ ResetLocals
    /\ UNCHANGED <<auxVars, storeVars, userCache, now, runs, user_id, progress, historyVars>>

Next ==
    \/ \E u \in UserIds : StartRun(u)
    \/ RunGetUser
    \/ RunGetSources
    \/ RunSource
    \/ RunReturn
    \/ CollectionEnter
    \/ FetchChannel
    \/ ChannelsDone
    \/ FetchPlaylist
    \/ FilterVideos
    \/ BatchLoop
    \/ ProcessVideosChannels
    \/ ProcessVideosStep
    \/ ProcessVideosReturn
    \/ LinkVideos
    \/ InsertJob
    \/ UpdateSource
    \/ Crash

Spec == Init /\ [][Next]_vars

\* The store of the tests: one collection, one playlist, nothing processed.
InitStore ==
    /\ Init
    /\ sourceOrder = <<"s1", "s2", "s3">>
    /\ playlistId["s2"] = "pl1"
    /\ lastProcessed["s1"] = NoDate
    /\ sourceChannels["s1"] # <<>>

\* ---------------------------------------------------------- the fair run
\* The event loop keeps running the coroutine: a step of the batch loop that
\* can be taken is taken.
BatchFairness ==
    /\ WF_vars(BatchLoop)
    /\ WF_vars(ProcessVideosChannels)
    /\ WF_vars(ProcessVideosStep)
    /\ WF_vars(ProcessVideosReturn)

SpecLive == InitStore /\ [][Next]_vars /\ BatchFairness

\* -------------------------------------------------- two invocations of run
\* The locals and the history of the invocation that is running.
ThisRun ==
    [pc |-> pc, user_id |-> user_id, sources |-> sources, idx |-> idx, jobs |-> jobs,
     source_channels |-> source_channels, ci |-> ci, new_videos |-> new_videos,
     videos_to_process |-> videos_to_process, batch |-> batch, pv |-> pv,
     processed_videos |-> processed_videos, job |-> job,
     provider_calls |-> provider_calls, store_writes |-> store_writes,
     queued |-> queued, advanced |-> advanced, fetched_ok |-> fetched_ok,
     fetch_status |-> fetch_status, backend |-> backend]

\* run is suspended where it awaits the provider (asyncio.to_thread in
\* fetch_channel_videos, fetch_playlist_videos and fetch_channel_info): the
\* store calls are synchronous and give the event loop no chance to run.
Awaiting ==
    \/ pc = "fetch_channel" /\ ci <= Len(source_channels)
    \/ pc = "playlist"
    \/ /\ pc = "process_videos"
       /\ pv.k = 0
       /\ {pv.videos[i].channel_id : i \in DOMAIN pv.videos} \ channels # {}

\* The event loop runs the other invocation: when this one awaits the
\* provider (the two overlap) or has ended (the other is a repeated run).
SwitchRun ==
    /\ pc \in Terminal \/ Awaiting
    /\ other.pc \notin Terminal
    /\ concurrent' = (concurrent \/ pc \notin Terminal)
    /\ other' = ThisRun
    /\ pc' = other.pc
    /\ user_id' = other.user_id
    /\ sources' = other.sources
    /\ idx' = other.idx
    /\ jobs' = other.jobs
    /\ source_channels' = other.source_channels
    /\ ci' = other.ci
    /\ new_videos' = other.new_videos
    /\ videos_to_process' = other.videos_to_process
    /\ batch' = other.batch
    /\ pv' = other.pv
    /\ processed_videos' = other.processed_videos
    /\ job' = other.job
    /\ provider_calls' = other.provider_calls
    /\ store_writes' = other.store_writes
    /\ queued' = other.queued
    /\ advanced' = other.advanced
    /\ fetched_ok' = other.fetched_ok
    /\ fetch_status' = other.fetch_status
    /\ backend' = other.backend
    /\ UNCHANGED <<storeVars, userCache, now, runs, progress, failure, cacheVars,
                   rateVars, sessionVars, walkVars>>

\* A day passes between two invocations; the cached user rows, kept for
\* minutes, are gone.
TickRuns ==
    /\ pc \in Terminal
    /\ now < FirstNow + MaxTicks
    /\ now' = now + 1
    /\ userCache' = {}
    /\ UNCHANGED <<storeVars, pc, runs, user_id, sources, idx, jobs, progress,
                   sourceVars, videoVars, historyVars, auxVars>>

\* The two invocations together meet no more than MaxRunsFaults failures.
FewFaults == faults' <= MaxRunsFaults

NextRuns ==
    \/ StartRun("u1") /\ FewFaults
    \/ RunGetUser /\ FewFaults
    \/ RunGetSources /\ FewFaults
    \/ RunSource /\ FewFaults
    \/ RunReturn /\ FewFaults
    \/ CollectionEnter /\ FewFaults
    \/ FetchChannel /\ FewFaults
    \/ ChannelsDone /\ FewFaults
    \/ FetchPlaylist /\ FewFaults
    \/ FilterVideos /\ FewFaults
    \/ BatchLoop /\ FewFaults
    \/ ProcessVideosChannels /\ FewFaults
    \/ ProcessVideosStep /\ FewFaults
    \/ ProcessVideosReturn /\ FewFaults
    \/ LinkVideos /\ FewFaults
    \/ InsertJob /\ FewFaults
    \/ UpdateSource /\ FewFaults
    \/ SwitchRun /\ FewFaults
    \/ TickRuns /\ FewFaults

\* The store of the tests, and no failure met yet.
InitRuns == InitStore

SpecRuns == InitRuns /\ [][NextRuns]_vars

\* -------------------------------------------------------- the rate limiter
\* ChannelMonitorAgent._check_rate_limit, lines 40-58, as a function of the
\* counter, the time of the last reset and the time of the call (days): the
\* counter starts anew when a day has passed, the call waits for the next day
\* when the counter stands at 90% of rate_limit, and the call is counted.
_check_rate_limit(count, last, t) ==
    LET fresh == t - last > 1
        c1 == IF fresh THEN 0 ELSE count
        l1 == IF fresh THEN t ELSE last IN
    IF c1 * 10 >= rate_limit * 9
    THEN [count |-> 1, last |-> l1 + 1]
    ELSE [count |-> c1 + 1, last |-> l1]

\* ------------------------------------------------ run over many sources
\* The user configures one more source (Database.insert_source).
AddSource ==
    /\ walk = "idle"
    /\ Len(owned) < MaxSources
    /\ owned' = Append(owned, Len(owned) + 1)
    /\ UNCHANGED <<walk, page, visited, agentVarsNoWalk>>

\* run, lines 81-86: the sources are read with get_sources_by_user(user_id),
\* page and page_size left at their defaults; without sources run returns.
WalkStart ==
    /\ walk = "idle"
    /\ page' = first_page(owned)
    /\ walk' = IF page' = <<>> THEN "done" ELSE "loop"
    /\ UNCHANGED <<owned, visited, agentVarsNoWalk>>

\* run, lines 88-108: the loop takes up the next source of the list, and run
\* returns after the last.
WalkVisit ==
    /\ walk = "loop"
    /\ visited' = visited \cup {page[Cardinality(visited) + 1]}
    /\ walk' = IF Cardinality(visited') = Len(page) THEN "done" ELSE "loop"
    /\ UNCHANGED <<owned, page, agentVarsNoWalk>>

NextWalk ==
    \/ AddSource
    \/ WalkStart
    \/ WalkVisit

SpecWalk == InitStore /\ [][NextWalk]_vars

\* ------------------------------------------------------- the feed fetcher
\* An exit that closes the session although contexts are still active.
closes_at_exit_always(depth) == TRUE

\* _get_session, line 42: the exit that brings the depth to 0 closes.
closes_at_exit(depth) == depth = 0

\* self.session is an open session: `self.session and not self.session.closed`.
SessionOpen == session # NoSession /\ session \notin closed

\* _get_session, lines 29-38: under the lock, a session is created when there
\* is none or it is closed, the depth is counted up, and the session is yielded.
EnterContext(t) ==
    /\ Len(held[t]) < MaxNesting
    /\ SessionOpen \/ created < MaxSessions
    /\ session' = IF SessionOpen THEN session ELSE created + 1
    /\ created' = IF SessionOpen THEN created ELSE created + 1
    /\ _session_owner' = IF SessionOpen THEN _session_owner ELSE TRUE
    /\ _context_depth' = _context_depth + 1
    /\ held' = [held EXCEPT ![t] = Append(@, session')]
    /\ UNCHANGED <<closed, agentVarsNoSession, cacheVars>>

\* _get_session, lines 39-44: under the lock, the depth is counted down and
\* the session is closed and cleared when the fetcher owns it and no context
\* is left.  The innermost context of the task exits.
ExitContext(t) ==
    /\ held[t] # <<>>
    /\ held' = [held EXCEPT ![t] = SubSeq(@, 1, Len(@) - 1)]
    /\ _context_depth' = _context_depth - 1
    /\ IF closes_at_exit(_context_depth') /\ _session_owner /\ SessionOpen
       THEN /\ closed' = closed \cup {session}
            /\ session' = NoSession
       ELSE UNCHANGED <<closed, session>>
    /\ UNCHANGED <<_session_owner, created, agentVarsNoSession, cacheVars>>

\* YouTubeRSSFetcher.close, lines 46-52.
CloseFetcher ==
    /\ IF _session_owner /\ SessionOpen
       THEN /\ closed' = closed \cup {session}
            /\ session' = NoSession
            /\ _context_depth' = 0
       ELSE UNCHANGED <<closed, session, _context_depth>>
    /\ UNCHANGED <<_session_owner, created, held, agentVarsNoSession, cacheVars>>

\* Tasks that enter and leave _get_session contexts, nested or overlapping.
NextSession ==
    \/ \E t \in Tasks : EnterContext(t)
    \/ \E t \in Tasks : ExitContext(t)

SpecSession == InitStore /\ [][NextSession]_vars

\* The same tasks, and calls of close() at any moment.
NextFetcher ==
    \/ \E t \in Tasks : EnterContext(t)
    \/ \E t \in Tasks : ExitContext(t)
    \/ CloseFetcher

SpecFetcher == InitStore /\ [][NextFetcher]_vars

\* ------------------------------------------------------------ the TTL cache
\* An expiry test under which no entry ever expires.
expired_never(expiry, t) == FALSE

\* Cache.get, line 58: `self._ttls[key] < datetime.now()`.
expired(expiry, t) == expiry < t

\* Cache.get: the value it returns and the dictionaries it leaves.
Cache_get(key) ==
    IF _cache[key] = NoValue
    THEN [value |-> NoValue, _cache |-> _cache, _ttls |-> _ttls]
    ELSE IF expired(_ttls[key], clock)
    THEN [value |-> NoValue, _cache |-> [_cache EXCEPT ![key] = NoValue],
          _ttls |-> [_ttls EXCEPT ![key] = 0]]
    ELSE [value |-> _cache[key], _cache |-> _cache, _ttls |-> _ttls]

\* Cache.set
Cache_set(c, t, key, value, ttl) ==
    [_cache |-> [c EXCEPT ![key] = value], _ttls |-> [t EXCEPT ![key] = clock + ttl]]

\* The last Cache.set on key is less than a TTL old.
WithinTtl(key) == written[key].value # NoValue /\ clock - written[key].at < cache_ttl

\* cache.set(key, value, ttl) is called.
CacheSet(key, value) ==
    /\ _cache' = Cache_set(_cache, _ttls, key, value, cache_ttl)._cache
    /\ _ttls' = Cache_set(_cache, _ttls, key, value, cache_ttl)._ttls
    /\ written' = [written EXCEPT ![key] = [value |-> value, at |-> clock]]
    /\ cache_op' = [op |-> "set", key |-> key, result |-> NoValue, fresh |-> FALSE,
                    queried |-> FALSE]
    /\ UNCHANGED <<clock, agentVars>>

\* cache.get(key) is called.
CacheGet(key) ==
    /\ _cache' = Cache_get(key)._cache
    /\ _ttls' = Cache_get(key)._ttls
    /\ cache_op' = [op |-> "get", key |-> key, result |-> Cache_get(key).value,
                    fresh |-> WithinTtl(key), queried |-> FALSE]
    /\ UNCHANGED <<clock, written, agentVars>>

\* Database.get_user(u) through _cached_query: a cached value is returned
\* without a query; otherwise query_func reads table users, raises
\* RecordNotFoundError when there is no row, and its result is cached.
CachedGetUser(u) ==
    LET key == _cache_key("user", u)
        cached == Cache_get(key) IN
    IF cached.value # NoValue
    THEN /\ _cache' = cached._cache
         /\ _ttls' = cached._ttls
         /\ cache_op' = [op |-> "get_user", key |-> key, result |-> cached.value,
                         fresh |-> WithinTtl(key), queried |-> FALSE]
         /\ UNCHANGED <<clock, written, agentVars>>
    ELSE IF u \in users
    THEN /\ _cache' = Cache_set(cached._cache, cached._ttls, key, UserInfo(u), cache_ttl)._cache
         /\ _ttls' = Cache_set(cached._cache, cached._ttls, key, UserInfo(u), cache_ttl)._ttls
         /\ written' = [written EXCEPT ![key] = [value |-> UserInfo(u), at |-> clock]]
         /\ cache_op' = [op |-> "get_user", key |-> key, result |-> UserInfo(u),
                         fresh |-> WithinTtl(key), queried |-> TRUE]
         /\ UNCHANGED <<clock, agentVars>>
    ELSE /\ _cache' = cached._cache
         /\ _ttls' = cached._ttls
         /\ cache_op' = [op |-> "get_user", key |-> key, result |-> NotFound,
                         fresh |-> WithinTtl(key), queried |-> TRUE]
         /\ UNCHANGED <<clock, written, agentVars>>

\* A minute passes.
CacheTick ==
    /\ clock < MaxClock
    /\ clock' = clock + 1
    /\ cache_op' = NoOp
    /\ UNCHANGED <<_cache, _ttls, written, agentVars>>

\* The values the cache is given: user rows.
CacheValues == {UserInfo(u) : u \in {"u1", "u2"}}

NextCache ==
    \/ \E key \in CacheKeys, value \in CacheValues : CacheSet(key, value)
    \/ \E key \in CacheKeys : CacheGet(key)
    \/ \E u \in UserIds : CachedGetUser(u)
    \/ CacheTick

SpecCache == InitStore /\ [][NextCache]_vars

\* ================================================================ properties
\* The job of the current source has been built (lines 309-321).
JobBuilt == pc \in {"insert_job", "update_source"}
\* Nothing failed while source s was processed, but possibly a listing fetch.
OnlyFetchFailed(s) == \A f \in failed : f[1] = s => f[2] = "fetch"
NoDuplicate(seq) == \A i, j \in DOMAIN seq : i # j => seq[i] # seq[j]
\* The ids of the videos the provider returned for s that are uploaded after t.
FetchedAfter(s, t) ==
    {v \in Ids(fetched_ok[s]) : PublishedAt(v) # NoDate /\ PublishedAt(v).wall > t}
\* The ids of the videos the provider returned for s that carry an upload date.
FetchedDated(s) == {v \in Ids(fetched_ok[s]) : PublishedAt(v) # NoDate}
JobsOf(s) == {i \in DOMAIN jobs : jobs[i].source_id = s}
RowsOf(s) == {i \in DOMAIN generationJobs : generationJobs[i].source_id = s}

\* C1: a source's last_processed_at is written by a run only after
\* insert_generation_job returned, in that run, a job whose source_id is that
\* source; this holds in every state, also after a cancellation or a crash.
C1_CheckpointOnlyAfterJob ==
    \A s \in advanced :
        /\ s \in queued
        /\ \E i \in DOMAIN generationJobs :
              /\ generationJobs[i].source_id = s
              /\ generationJobs[i].user_id = user_id
C1_Witness == pc = "crashed" /\ advanced # {} /\ Cardinality(queued) = 2

\* C2: when no video survives filtering and batch processing, no job is
\* created for the source and its last_processed_at is not written: every job
\* row names at least one video, and so does the job of every source whose
\* checkpoint was written.
C2_NoJobWithoutVideo ==
    /\ \A i \in DOMAIN generationJobs : generationJobs[i].video_ids # <<>>
    /\ \A s \in advanced : \E i \in RowsOf(s) : generationJobs[i].video_ids # <<>>

\* C3: in a run without store failure, a source with an included video has
\* exactly one job, which is in the list run returns, and a non-null
\* last_processed_at; and no source ever has two jobs of one run.
C3_OneJobPerSource ==
    /\ \A s \in SourceIds : Cardinality(JobsOf(s)) <= 1 /\ Cardinality(RowsOf(s)) <= 1
    /\ (pc = "done" /\ \A f \in failed : f[2] = "fetch") =>
          \A k \in DOMAIN sources :
              (\E v \in Range(fetched_ok[sources[k].id]) : _should_process_video(v, sources[k])) =>
                  /\ Cardinality(JobsOf(sources[k].id)) = 1
                  /\ \A i \in JobsOf(sources[k].id) : jobs[i] \in Range(generationJobs)
                  /\ lastProcessed[sources[k].id] # NoDate
C3_Witness ==
    /\ pc = "done"
    /\ failed = {}
    /\ Len(jobs) = 2
    /\ Len(jobs[1].video_ids) >= 2

\* C4: the job the engine builds is QUEUED, carries the run's user id, the
\* source's id (as source_id and in processing_options) and the source's
\* preferences, and lists each video that survived filtering and batch
\* processing exactly once.
C4_JobPayload ==
    /\ JobBuilt =>
          /\ job.status = "QUEUED"
          /\ job.user_id = user_id
          /\ job.source_id = source.id
          /\ job.options_source_id = source.id
          /\ job.preferences = SourcePreferences(source.id)
          /\ NoDuplicate(job.video_ids)
          /\ Range(job.video_ids) = Ids(processed_videos)
          /\ Range(job.video_ids) \subseteq Ids(videos_to_process)
          /\ \A v \in Range(job.video_ids) : videos[v] # NoVideo
          /\ OnlyFetchFailed(source.id) => Range(job.video_ids) = Ids(videos_to_process)
    /\ \A i \in DOMAIN jobs :
          /\ jobs[i].status = "QUEUED"
          /\ jobs[i].user_id = user_id
          /\ jobs[i].options_source_id = jobs[i].source_id
          /\ jobs[i].preferences = SourcePreferences(jobs[i].source_id)
          /\ NoDuplicate(jobs[i].video_ids)
C4_Witness ==
    /\ pc = "done"
    /\ \E i \in DOMAIN jobs :
          /\ jobs[i].source_id = "s1"
          /\ Range(jobs[i].video_ids) = {"v0", "v1", "v2", "v3"}
          /\ jobs[i].preferences.tts_voice = "test_voice"

\* C5: for a source with checkpoint X, a fetched video is in the job iff it
\* was uploaded strictly after X (of X-1, X and X+1 only X+1 is).
C5_StrictlyAfterCheckpoint ==
    (JobBuilt /\ source.last_processed_at # NoDate) =>
        /\ Range(job.video_ids) \subseteq FetchedAfter(source.id, source.last_processed_at.wall)
        /\ OnlyFetchFailed(source.id) =>
              Range(job.video_ids) = FetchedAfter(source.id, source.last_processed_at.wall)
C5_Witness ==
    /\ JobBuilt
    /\ source.last_processed_at # NoDate
    /\ PublishedAt("v2").wall = source.last_processed_at.wall
    /\ {"v1", "v2", "v3"} \subseteq Ids(fetched_ok[source.id])
    /\ job.video_ids = <<"v3">>

EmptyCollection(s) ==
    /\ SourceType(s) = "channel_collection"
    /\ Range(sourceChannels[s]) \cap channels = {}
Skipped(s) == EmptyCollection(s) \/ (SourceType(s) = "playlist" /\ playlistId[s] = Null)
C8_BenignSkip ==
    /\ \A s \in SourceIds : Skipped(s) =>
          /\ s \notin provider_calls
          /\ s \notin store_writes
          /\ s \notin advanced
          /\ lastProcessed[s] # Aware(now)
          /\ JobsOf(s) = {} /\ RowsOf(s) = {}
          /\ fetched_ok[s] = <<>>
    /\ pc = "done" =>
          \A k \in DOMAIN sources :
              ~Skipped(sources[k].id) => sources[k].id \in provider_calls
C8_Witness ==
    /\ pc = "done"
    /\ Len(sources) = 2
    /\ Skipped(sources[1].id)
    /\ Len(jobs) = 1
    /\ jobs[1].source_id = sources[2].id

\* C9: run for a user id without user record returns an empty list, raises
\* nothing (the store answering), and calls neither the provider nor a store
\* write.
C9_UnknownUser ==
    (user_id # Null /\ user_id \notin users) =>
        /\ pc \in {"get_user", "done", "raised", "crashed"}
        /\ pc = "raised" => <<"run", "store">> \in failed
        /\ jobs = <<>>
        /\ provider_calls = {}
        /\ store_writes = {}
        /\ generationJobs = <<>>
        /\ user_id \notin userCache
C9_Witness == pc = "done" /\ user_id = "ghost" /\ failed = {}

\* C10: when the fetch of a member channel raises, every other member channel
\* is still fetched, and the job lists the included videos of every channel
\* whose fetch succeeded.
C10_ChannelFailureIsolated ==
    /\ (pc \in {"filter", "batch", "process_videos", "link", "insert_job", "update_source"}
          /\ source.source_type = "channel_collection") =>
          \A c \in Range(source_channels) : fetch_status[c] # "none"
    /\ (JobBuilt /\ source.source_type = "channel_collection" /\ OnlyFetchFailed(source.id)) =>
          \A c \in Range(source_channels) : fetch_status[c] = "listed" =>
              \A v \in Range(ChannelListing(c)) :
                  _should_process_video(VideoMetadata(v, c), source) =>
                      v \in Range(job.video_ids)
C10_Witness ==
    /\ JobBuilt
    /\ source_channels = <<"c1", "c2", "c3">>
    /\ fetch_status["c1"] = "listed"
    /\ fetch_status["c2"] = "raised"
    /\ fetch_status["c3"] = "listed"
    /\ Range(job.video_ids) = {"v0", "v1", "v3"}

\* The video ids of a list of videos, in order.
IdList(vs) == [i \in DOMAIN vs |-> vs[i].youtube_video_id]

\* C11 as claimed: when the primary backend signals quota exhaustion for a
\* channel listing, the list the engine obtains for the channel is the one
\* the fallback feed returns for it, and nothing is raised.
C11_QuotaFallsBackToFeed ==
    \A c \in ChannelIds : backend[c].signal = "quota" =>
        /\ ~backend[c].raised
        /\ IdList(backend[c].videos) = IdList(rss_fetch_channel_videos(c, TRUE))

\* C12 as claimed: a listing call that meets a backend failure other than a
\* quota signal (an HTTP error, a transport error) raises nothing and returns
\* an empty list.
C12_BackendFailureReturnsEmpty ==
    \A c \in ChannelIds \cup PlaylistIds :
        backend[c].signal \in {"http_error", "transport_error"} =>
            /\ ~backend[c].raised
            /\ backend[c].videos = <<>>

\* C16: when the job insert fails, or the persisted job names another source,
\* the job is not in run's output, the source's last_processed_at is not
\* written, run does not raise because of it and has moved on to the next
\* source.
C16_RejectedJobIsDropped ==
    /\ \A i \in DOMAIN jobs : jobs[i] # NoJob /\ jobs[i].source_id \in SourceIds
    /\ \A s \in SourceIds : <<s, "job">> \in failed =>
          /\ JobsOf(s) = {}
          /\ s \notin queued
          /\ s \notin advanced
          /\ lastProcessed[s] # Aware(now)
          /\ pc = "raised" => <<"run", "store">> \in failed
          /\ pc \notin {"crashed", "raised"} =>
                /\ pc # "update_source" \/ source.id # s
                /\ \E k \in 1..(idx - 1) : sources[k].id = s
C16_Witness ==
    /\ pc = "done"
    /\ Len(sources) = 2
    /\ failed = {<<sources[1].id, "job">>}
    /\ \E i \in DOMAIN generationJobs : generationJobs[i].source_id = Null
    /\ Len(jobs) = 1
    /\ jobs[1].source_id = sources[2].id
    /\ sources[2].id \in advanced

\* C17 as claimed: a store or provider failure met while a source is being
\* processed never makes run raise: run raises, if at all, before its loop
\* over the sources.
C17_SourceFailureContained == pc = "raised" => idx = 0

\* C20 as claimed: when batch processing ends, every batch after one that
\* exhausted its retries has been processed: at most the videos of the
\* exhausted batch are left over.
C20_LaterBatchesProcessed ==
    [][(pc = "batch" /\ pc' = "link") => Drop(batch.videos, batch_size) = <<>>]_vars

\* C19: Cache.get returns the value last set for a key while less than a TTL
\* has passed since, and nothing, the entry removed, once more than a TTL has
\* passed or when the key was never set; a get_user within the TTL of a
\* cached user returns that user without a store query.
C19_CacheTtl ==
    LET key == cache_op.key IN
    /\ cache_op.op = "get" =>
          /\ WithinTtl(key) => cache_op.result = written[key].value
          /\ (written[key].value = NoValue \/ clock - written[key].at > cache_ttl) =>
                cache_op.result = NoValue /\ _cache[key] = NoValue
    /\ (cache_op.op = "get_user" /\ cache_op.fresh) =>
          /\ cache_op.result = written[key].value
          /\ ~cache_op.queried
C19_Witness ==
    /\ cache_op.op = "get_user"
    /\ cache_op.fresh
    /\ ~cache_op.queried
    /\ cache_op.result = UserInfo("u1")
    /\ clock > written[cache_op.key].at
    /\ \E k \in CacheKeys : written[k].value # NoValue /\ _cache[k] = NoValue

\* The video the catalog step of _process_videos is looking at.
Observed == pv.videos[pv.k]
\* The catalog step is about to observe a video whose id is already stored.
ObservesStored ==
    /\ pc = "process_videos"
    /\ pv.k \in 1..Len(pv.videos)
    /\ Observed.youtube_video_id \notin pv.processed_ids
    /\ videos[Observed.youtube_video_id] # NoVideo

\* C13: over any sequence of runs, overlapping or repeated, the catalog
\* holds one Video record per id, filed under that id; a stored record is
\* never changed by a later observation of its id; and an observation of a
\* stored id, when the store answers, hands the stored record on and marks no
\* failure.
C13_FirstObservationKept ==
    [][/\ \A v \in VideoIds :
            /\ videos[v] # NoVideo => videos'[v] = videos[v]
            /\ videos'[v] # NoVideo => videos'[v].youtube_video_id = v
       /\ (ObservesStored /\ pc' = "process_videos")
            => /\ failed' = failed
               /\ pv'.processed_videos =
                    Append(pv.processed_videos, videos[Observed.youtube_video_id])
      ]_vars

\* In a second run the playlist source observes v3, which the collection
\* source stored first with its own channel, and gets that first record.
C13_Witness ==
    /\ runs = 2
    /\ pc = "process_videos"
    /\ source.id = "s2"
    /\ videos["v3"] # NoVideo
    /\ videos["v3"].channel_id = "c3"
    /\ \E i \in DOMAIN pv.processed_videos :
          /\ pv.processed_videos[i] = videos["v3"]
          /\ pv.videos[i].youtube_video_id = "v3"
          /\ pv.videos[i].channel_id = PlaylistChannel("pl1")

\* The rows of the link table that belong to source s.
LinksOf(table, s) == {i \in DOMAIN table : table[i][1] = s}
\* This invocation is a repeated run: it started after the first one returned.
RepeatedRun == runs = 2 /\ ~concurrent /\ other.pc = "done"
\* Whatever failed for source s failed after its videos were linked.
LinkedInFull(s) == \A f \in failed : f[1] = s => f[2] \in {"job", "checkpoint"}

\* C14: the link table never holds two rows for one (source, video) pair, and
\* when a repeated run links the videos of a source that the first run linked
\* in full, the source has as many links afterwards as it had before.
C14_NoDuplicateLinks ==
    [][/\ \A i, j \in DOMAIN sourceVideos' :
            i # j => source_videos_key(sourceVideos'[i]) # source_videos_key(sourceVideos'[j])
       /\ (RepeatedRun /\ pc = "link" /\ LinkedInFull(source.id))
            => Cardinality(LinksOf(sourceVideos', source.id))
                 = Cardinality(LinksOf(sourceVideos, source.id))
      ]_vars

\* The repeated run has linked again the videos of the collection source,
\* whose checkpoint the first run left as it was, and the source has the two
\* links of the first run.
C14_Witness ==
    /\ RepeatedRun
    /\ pc = "insert_job"
    /\ source.id = "s1"
    /\ "s1" \in store_writes
    /\ "s1" \in other.store_writes
    /\ LinkedInFull("s1")
    /\ job.video_ids # <<>>
    /\ Cardinality(LinksOf(sourceVideos, "s1")) = Len(job.video_ids)

\* The wall-clock reading of a checkpoint; a source never run reads below all.
CheckpointWall(d) == IF d = NoDate THEN -1 ELSE d.wall
\* Video v of a listing qualifies for the source as the run loaded it: it has
\* an upload date, later than the checkpoint if the source has one.
QualifiesFor(v, src) ==
    /\ PublishedAt(v.youtube_video_id) # NoDate
    /\ \/ src.last_processed_at = NoDate
       \/ PublishedAt(v.youtube_video_id).wall > src.last_processed_at.wall

\* C15: over any sequence of runs no step lowers a source's last_processed_at,
\* and a run reaches the checkpoint write of a source, and changes the
\* checkpoint, only when some video of the listing it fetched qualifies.
C15_CheckpointMonotone ==
    [][/\ \A s \in SourceIds :
            /\ CheckpointWall(lastProcessed'[s]) >= CheckpointWall(lastProcessed[s])
            /\ lastProcessed'[s] # lastProcessed[s]
                 => /\ pc = "update_source"
                    /\ source.id = s
       /\ pc' = "update_source"
            => \E i \in DOMAIN new_videos' : QualifiesFor(new_videos'[i], sources'[idx'])
      ]_vars

\* A day after the first run a second run has listed the videos of the
\* collection source, none of which qualifies, and has gone on to the next
\* source; the checkpoint is the one the first run wrote.
C15_Witness ==
    /\ runs = 2
    /\ now = FirstNow + 1
    /\ pc \notin Terminal
    /\ idx > 1
    /\ sources[1].id = "s1"
    /\ sources[1].last_processed_at = Aware(FirstNow)
    /\ fetched_ok["s1"] # <<>>
    /\ \A i \in DOMAIN fetched_ok["s1"] : ~QualifiesFor(fetched_ok["s1"][i], sources[1])
    /\ lastProcessed["s1"] = Aware(FirstNow)

\* C18 as claimed: whether two invocations of run overlap at the provider
\* awaits or one follows the other, no video id is referenced by two
\* generation jobs of the same source.
C18_NoVideoInTwoJobs ==
    \A i, j \in DOMAIN generationJobs :
        (i # j /\ generationJobs[i].source_id = generationJobs[j].source_id)
            => Range(generationJobs[i].video_ids) \cap Range(generationJobs[j].video_ids) = {}

\* _process_videos_batch is running: at the head of its loop or in a batch.
InBatchLoop == pc \in {"batch", "process_videos"}

\* C21: a batch is started only while fewer than max_retries attempts in a
\* row have failed, so no batch is attempted more than max_retries times in a
\* row; a batch that succeeds leaves fewer videos to do; and, whatever the
\* pattern of successes and failures, _process_videos_batch is left.
C21_BatchTerminates ==
    /\ [](InBatchLoop => batch.retry_count <= max_retries)
    /\ [](pc = "process_videos" => batch.retry_count < max_retries)
    /\ [][(pc = "process_videos" /\ pv.k > Len(pv.videos) /\ pc' = "batch")
            => /\ Len(batch'.videos) < Len(batch.videos)
               /\ batch'.retry_count = 0]_vars
    /\ (InBatchLoop ~> ~InBatchLoop)

\* Three attempts in a row have failed and videos are left: the loop is about
\* to end.
C21_Witness ==
    /\ pc = "batch"
    /\ batch.retry_count = max_retries
    /\ batch.videos # <<>>

\* C22 as claimed: when nothing but the bulk creation of the links has failed
\* (so that every single link insert would succeed), every video listed in a
\* created job has a source-video link for the job's source.
C22_LinkFallback ==
    (\A f \in failed : f[2] = "link")
        => \A i \in DOMAIN generationJobs :
              \A v \in Range(generationJobs[i].video_ids) :
                 <<generationJobs[i].source_id, v>> \in Range(sourceVideos)

\* A step of run that issues a video-listing call to the provider.
ListingCall ==
    /\ pc \in {"fetch_channel", "playlist"}
    /\ backend' # backend

\* C23 as claimed: every video-listing call run issues comes after a
\* rate-limit check that counts it, and is issued with the daily counter, the
\* call included, not above 90% of rate_limit.
C23_ListingRateLimited ==
    [][ListingCall
         => /\ _request_count' =
                 _check_rate_limit(_request_count, _last_request_time, now).count
            /\ _request_count' * 10 <= rate_limit * 9]_vars

\* C24 as claimed: the progress entry of a Channel Collection source that is
\* or was processed has total = the number of its member channels and
\* 0 <= processed <= total, and once the run has returned, processed = total:
\* every channel was counted, whether its fetch succeeded or raised.
C24_ProgressComplete ==
    \A s \in SourceIds :
        (SourceType(s) = "channel_collection" /\ progress[s].total > 0)
            => /\ progress[s].total = Len(get_source_channels(s))
               /\ progress[s].processed \in 0..progress[s].total
               /\ pc = "done" => progress[s].processed = progress[s].total

\* C25 as claimed: once a run that met no failure has returned, every video
\* the provider returned for a source during the run has a row in the
\* catalog, whether or not the inclusion policy included it.
C25_CatalogBeforePolicy ==
    (pc = "done" /\ failed = {})
        => \A s \in SourceIds : \A v \in Ids(fetched_ok[s]) : videos[v] # NoVideo

\* _process_videos calls insert_video for the video it is looking at: the
\* video is not stored and get_video did not raise.
InsertVideoCall ==
    /\ pc = "process_videos"
    /\ pv.k \in 1..Len(pv.videos)
    /\ Observed.youtube_video_id \notin pv.processed_ids
    /\ videos[Observed.youtube_video_id] = NoVideo
    /\ pc' = "process_videos"

\* C26 as claimed: at every insert_video call the engine issues, the channel
\* the video names is in the catalog.
C26_ChannelBeforeVideo ==
    [][InsertVideoCall => Observed.channel_id \in channels]_vars

\* The _get_session contexts that are active: entered and not yet left.
ActiveContexts == {c \in Tasks \X (1..MaxNesting) : c[2] <= Len(held[c[1]])}
Active == Cardinality(ActiveContexts)

\* C27: on a fetcher that owns its session and whose close() is not called,
\* all active contexts, nested or overlapping, hold the one session of the
\* fetcher and it is open; a session is closed, and cleared, in exactly the
\* steps in which the last active context exits; and a context entered when
\* none is active gets a session that did not exist before.
C27_SharedSession ==
    [][/\ Active' > 0
            => /\ SessionOpen'
               /\ \A t \in Tasks : \A i \in DOMAIN held'[t] : held'[t][i] = session'
       /\ Active' = 0 => session' = NoSession
       /\ closed \subseteq closed'
       /\ closed' # closed <=> (Active > 0 /\ Active' = 0)
       /\ (Active = 0 /\ Active' > 0) => session' \notin 0..created
      ]_vars

\* The first session was closed when its last context exited; three contexts
\* of two tasks, one nested, share the second.
C27_Witness ==
    /\ 1 \in closed
    /\ session = 2
    /\ held["t1"] = <<2, 2>>
    /\ held["t2"] = <<2>>
    /\ _context_depth = 3

\* C30 as claimed: with contexts entered and left by concurrent fetches and
\* close() called at any moment, _context_depth is never negative, equals the
\* number of active contexts, and a session the fetcher owns is not left open
\* when no context is active.
C30_DepthCountsContexts ==
    /\ _context_depth >= 0
    /\ _context_depth = Active
    /\ (Active = 0 /\ _session_owner) => ~SessionOpen

\* The ids of the videos upstream lists for source s: for its member channels
\* or for its playlist.
Upstream(s) ==
    IF SourceType(s) = "playlist" THEN Range(PlaylistListing(playlistId[s]))
    ELSE UNION {Range(ChannelListing(c)) : c \in Range(get_source_channels(s))}
\* Video v is due for a source the run loaded as src and whose checkpoint now
\* is t: uploaded after the checkpoint the run loaded, if any, and not after t.
Due(v, src, t) ==
    /\ PublishedAt(v) # NoDate
    /\ PublishedAt(v).wall <= t.wall
    /\ src.last_processed_at = NoDate \/ PublishedAt(v).wall > EnsureAware(src.last_processed_at).wall

\* C28 as claimed: when the run has advanced the checkpoint of a source, every
\* video upstream lists for the source that is due is referenced by a job of
\* that source, also after a failed channel fetch or a dropped batch.
C28_NoSilentLoss ==
    \A i \in DOMAIN sources :
        sources[i].id \in advanced
            => \A v \in Upstream(sources[i].id) :
                  Due(v, sources[i], lastProcessed[sources[i].id])
                    => \E j \in DOMAIN generationJobs :
                          /\ generationJobs[j].source_id = sources[i].id
                          /\ v \in Range(generationJobs[j].video_ids)

\* C29 as claimed: when run has returned, it has taken up every source the
\* user owns, however many there are.
C29_EverySourceVisited ==
    walk = "done" => visited = Range(owned)


====
